---- MODULE Spec2Model ----
(***************************************************************************)
(* ScreenGuard: the alert dispatch engine (services/alert_service.py),     *)
(* the per-user detection session manager and the detection endpoint       *)
(* (api/detection_routes.py), and the gaze classifier of the detector      *)
(* (models/screen_peek_detector.py).                                       *)
(*                                                                         *)
(* Time is in whole seconds; confidences and thresholds are in hundredths  *)
(* (0.7 is 70).  The two components share no state in the source: the      *)
(* sampling loop never calls the engine, and process_detection dispatches  *)
(* only when is_peeking, which it fixes to False.                          *)
(***************************************************************************)
EXTENDS Integers, Sequences, FiniteSets, TLC

VARIABLES
    now,              \* the wall clock read by time.time()
    alert_configs,    \* AlertService.alert_configs : channel value -> AlertConfig
    alert_history,    \* AlertService.alert_history : list of AlertEvent
    alert_callbacks,  \* AlertService.alert_callbacks : channel -> list of handlers
    rate_limits,      \* AlertService.rate_limits : key -> list of timestamps
    cooldowns,        \* AlertService.cooldowns : key -> timestamp
    last,             \* the most recent step: the call, its arguments, what it returned
    calls,            \* the send_multiple_alerts coroutines awaiting a handler, by caller
    active_connections, \* DetectionConnectionManager.active_connections : user -> socket
    detection_tasks,    \* DetectionConnectionManager.detection_tasks : user -> task
    sockets,            \* the websocket_detection handlers, in order of connection
    tasks,              \* the detection_loop tasks, in order of creation
    slast,              \* the session manager's latest step: the request it served
                        \* or the frame it wrote, if any
    screen_region,      \* ScreenPeekDetector.screen_region : (x, y, width, height)
    detected,           \* the latest process_frame call: its faces and its result
    reply               \* the latest process_detection call: request and response

engineVars == <<now, alert_configs, alert_history, alert_callbacks,
                rate_limits, cooldowns, last, calls>>

sessionVars == <<active_connections, detection_tasks, sockets, tasks, slast>>

detectorVars == <<screen_region, detected, reply>>

vars == <<engineVars, sessionVars, detectorVars>>

----------------------------------------------------------------------------
(* Bounds of the model *)

MaxTime == 61
MaxHistory == 2
MaxRun == 101
MaxCallbacks == 2
MaxSockets == 2
MaxTasks == 2

(* Program constants *)

WindowSeconds == 60
\* limit: int = 100 of get_alert_history
DefaultLimit == 100
\* The span get_alert_stats calls recent.
RecentSeconds == 3600

----------------------------------------------------------------------------
(* Input universes *)

Users == {"u1", "u2"}
\* AlertType values: "visual" is configured by the constructor, "email" is not.
Channels == {"visual", "email"}
\* The channel update_config is called for; "email" stays without a configuration.
Reconfigured == {"visual"}
\* The channel register_callback is called for.
Registered == {"visual"}
Levels == {"medium"}
Messages == {""}
Confidences == {60, 70}
\* Plain functions: one returns, one raises an Exception.
Handlers == {"h_ok", "h_raise"}
Raising == {"h_raise"}
\* Coroutine functions: one suspends and later completes, one never completes.
AsyncHandlers == {"h_async", "h_hang"}
Completing == {"h_async"}
\* The handlers each channel is given in the fan-out runs.
Wired ==
    [c \in Channels |->
        IF c = "visual" THEN {"h_raise", "h_hang"} ELSE {"h_raise", "h_async"}]
\* The tasks that call send_multiple_alerts, each with one call at a time.
Callers == {"d1", "d2"}
\* The user the concurrent dispatches are for.
Dispatched == {"u1"}
\* alert_types arguments of send_multiple_alerts
AlertTypeLists ==
    {<<"visual">>, <<"email">>, <<"visual", "email">>, <<"email", "visual">>}
\* Clock readings the environment hands out: around 0 and around one window later.
SampleOffsets == {0, 1, 3}
Instants == {t \in 0..MaxTime : (t % WindowSeconds) \in SampleOffsets}
\* How far the clock may move between two time.time() reads of one call.
ClockDrifts == {0, 1}

\* user_id arguments: a falsy user_id (None or the empty string) selects all users.
AllUsers == ""
UserArgs == Users \cup {AllUsers}
\* limit arguments of get_alert_history
Limits == {1, DefaultLimit}

NoConfig == [absent |-> TRUE]
NoMessage == "<none>"

AlertConfig(en, th, cd, mf, msg) ==
    [enabled |-> en, threshold |-> th, cooldown |-> cd, max_frequency |-> mf,
     custom_message |-> msg]

DefaultConfigs ==
    [c \in Channels |->
        IF c = "visual" THEN AlertConfig(TRUE, 70, 3, 20, NoMessage) ELSE NoConfig]

\* Configurations a caller passes to update_config.
ConfigInputs ==
    { AlertConfig(TRUE, 60, 0, 1, "custom"),
      AlertConfig(TRUE, 70, 0, 0, NoMessage),
      AlertConfig(FALSE, 70, 3, 20, NoMessage) }

\* Configurations with a threshold above 1.0, a negative cooldown, a negative
\* max_frequency.
InvalidConfigs ==
    { AlertConfig(TRUE, 150, 3, 20, NoMessage),
      AlertConfig(TRUE, 70, -1, 20, NoMessage),
      AlertConfig(TRUE, 70, 3, -1, NoMessage) }

----------------------------------------------------------------------------
(* Helpers of the engine *)

\* f"{user_id}_{alert_type.value}"
Key(user_id, alert_type) == user_id \o "_" \o alert_type

\* f"{user_id}_{alert_type.value}_{int(time.time() * 1000)}"
AlertId(user_id, alert_type, t) ==
    user_id \o "_" \o alert_type \o "_" \o ToString(t * 1000)

\* Mutant: a timestamp exactly one window old is kept.
PruneInclusive(stamps, current_time) ==
    SelectSeq(stamps, LAMBDA ts : ts >= current_time - WindowSeconds)

\* [ts for ts in self.rate_limits[rate_key] if ts > minute_ago]
Prune(stamps, current_time) ==
    SelectSeq(stamps, LAMBDA ts : ts > current_time - WindowSeconds)

\* Mutant: the elapsed time is taken one second too long.
InCooldownLate(key, config, current_time) ==
    /\ key \in DOMAIN cooldowns
    /\ current_time - cooldowns[key] + 1 < config.cooldown

\* current_time - self.cooldowns[cooldown_key] < config.cooldown
InCooldown(key, config, current_time) ==
    /\ key \in DOMAIN cooldowns
    /\ current_time - cooldowns[key] < config.cooldown

\* The rate list as _can_send_alert leaves it once it gets past the cooldown check.
PrunedList(key, current_time) ==
    Prune(IF key \in DOMAIN rate_limits THEN rate_limits[key] ELSE <<>>, current_time)

\* Mutant: > in place of >=.
RateLimitedOffByOne(key, config, current_time) ==
    Len(PrunedList(key, current_time)) > config.max_frequency

\* len(self.rate_limits[rate_key]) >= config.max_frequency
RateLimited(key, config, current_time) ==
    Len(PrunedList(key, current_time)) >= config.max_frequency

\* Mutant: the comparison reversed.
BelowThresholdReversed(confidence, config) == confidence > config.threshold

\* Mutant: <= in place of <.
BelowThresholdInclusive(confidence, config) == confidence <= config.threshold

\* confidence < config.threshold
BelowThreshold(confidence, config) == confidence < config.threshold

\* message or config.custom_message or "Screen peeking detected!"
MessageFor(message, config) ==
    IF message # "" THEN message
    ELSE IF config.custom_message # NoMessage /\ config.custom_message # ""
         THEN config.custom_message
    ELSE "Screen peeking detected!"

Put(f, k, v) == [x \in DOMAIN f \cup {k} |-> IF x = k THEN v ELSE f[x]]

\* get_alert_stats of an empty selection
NoStats ==
    [total_alerts |-> 0, alerts_by_type |-> <<>>, alerts_by_level |-> <<>>,
     average_confidence |-> [sum |-> 0, of |-> 1], recent_alerts |-> 0]

\* What a call leaves behind for its caller: the value returned and the handlers
\* run; events and stats are the values the two read operations return, results
\* the dictionary send_multiple_alerts returns and handled the handlers it
\* started, by channel.
Returned(op, user_id, alert_type, confidence, result, invoked) ==
    [op |-> op, user_id |-> user_id, alert_type |-> alert_type,
     confidence |-> confidence, result |-> result, invoked |-> invoked,
     events |-> <<>>, stats |-> NoStats, results |-> <<>>, handled |-> <<>>]

\* s[-limit:]
LastOf(s, limit) ==
    IF limit > 0
    THEN SubSeq(s, IF Len(s) > limit THEN Len(s) - limit + 1 ELSE 1, Len(s))
    ELSE SubSeq(s, 1 - limit, Len(s))

\* AlertService.get_alert_history
get_alert_history(user_id, limit) ==
    IF user_id # AllUsers
    THEN LastOf(SelectSeq(alert_history, LAMBDA alert : alert.user_id = user_id),
                limit)
    ELSE LastOf(alert_history, limit)

\* alerts_by_type and alerts_by_level: how many of alerts carry each value of field
CountBy(alerts, field) ==
    [v \in {alerts[i][field] : i \in 1..Len(alerts)} |->
        Cardinality({i \in 1..Len(alerts) : alerts[i][field] = v})]

RECURSIVE TotalConfidence(_)
TotalConfidence(alerts) ==
    IF alerts = <<>> THEN 0
    ELSE alerts[1].confidence + TotalConfidence(Tail(alerts))

\* AlertService.get_alert_stats; the average is kept as the quotient it is of.
get_alert_stats(user_id) ==
    LET alerts == get_alert_history(user_id, DefaultLimit)
    IN  IF alerts = <<>> THEN NoStats
        ELSE [total_alerts |-> Len(alerts),
              alerts_by_type |-> CountBy(alerts, "alert_type"),
              alerts_by_level |-> CountBy(alerts, "level"),
              average_confidence |->
                  [sum |-> TotalConfidence(alerts), of |-> Len(alerts)],
              recent_alerts |->
                  Cardinality({i \in 1..Len(alerts) :
                                  alerts[i].timestamp > now - RecentSeconds})]

\* A configuration without cooldown that lets two dispatches through per minute.
Burst == AlertConfig(TRUE, 70, 0, 2, NoMessage)

\* A caller with no call under way.
Idle ==
    [user_id |-> "", level |-> "", message |-> "", confidence |-> 0,
     alert_types |-> <<>>, at |-> 0, results |-> <<>>, handled |-> <<>>]

\* A send_multiple_alerts call that has built its send_alert coroutines and is
\* about to await the first; alert_types are the channels not yet settled, at
\* the index of the callback being awaited.
NewCall(user_id, alert_types, level, message, confidence) ==
    [user_id |-> user_id, level |-> level, message |-> message,
     confidence |-> confidence, alert_types |-> alert_types, at |-> 0,
     results |-> <<>>, handled |-> <<>>]

\* The engine fields one run of a call reads and writes.
EngineState ==
    [history |-> alert_history, rates |-> rate_limits, cools |-> cooldowns]

Stamps(f, key) == IF key \in DOMAIN f THEN f[key] ELSE <<>>

\* Mutant: the admitted dispatch leaves the window and lastSentAt for later.
AdmissionStale(st, user_id, alert_type, level, message, confidence) ==
    LET config == alert_configs[alert_type]
        key == Key(user_id, alert_type)
        pruned == Prune(Stamps(st.rates, key), now)
        alert_event ==
            [alert_id |-> AlertId(user_id, alert_type, now),
             user_id |-> user_id, alert_type |-> alert_type, level |-> level,
             message |-> MessageFor(message, config), timestamp |-> now,
             confidence |-> confidence]
    IN  IF config = NoConfig THEN [ok |-> FALSE, st |-> st]
        ELSE IF BelowThreshold(confidence, config) THEN [ok |-> FALSE, st |-> st]
        ELSE IF ~config.enabled THEN [ok |-> FALSE, st |-> st]
        ELSE IF key \in DOMAIN st.cools /\ now - st.cools[key] < config.cooldown
            THEN [ok |-> FALSE, st |-> st]
        ELSE IF Len(pruned) >= config.max_frequency
            THEN [ok |-> FALSE, st |-> [st EXCEPT !.rates = Put(@, key, pruned)]]
        ELSE [ok |-> TRUE,
              st |-> [st EXCEPT !.history = Append(@, alert_event)]]

\* send_alert from its first line to the update of the rate limits, on the
\* engine fields st at one clock reading: whether the event was admitted, and
\* the fields afterwards.  No await lies between these lines.
Admission(st, user_id, alert_type, level, message, confidence) ==
    LET config == alert_configs[alert_type]
        key == Key(user_id, alert_type)
        pruned == Prune(Stamps(st.rates, key), now)
        alert_event ==
            [alert_id |-> AlertId(user_id, alert_type, now),
             user_id |-> user_id, alert_type |-> alert_type, level |-> level,
             message |-> MessageFor(message, config), timestamp |-> now,
             confidence |-> confidence]
    IN  IF config = NoConfig THEN [ok |-> FALSE, st |-> st]
        ELSE IF BelowThreshold(confidence, config) THEN [ok |-> FALSE, st |-> st]
        ELSE IF ~config.enabled THEN [ok |-> FALSE, st |-> st]
        ELSE IF key \in DOMAIN st.cools /\ now - st.cools[key] < config.cooldown
            THEN [ok |-> FALSE, st |-> st]
        ELSE IF Len(pruned) >= config.max_frequency
            THEN [ok |-> FALSE, st |-> [st EXCEPT !.rates = Put(@, key, pruned)]]
        ELSE [ok |-> TRUE,
              st |-> [history |-> Append(st.history, alert_event),
                      rates |-> Put(st.rates, key, Append(pruned, now)),
                      cools |-> Put(st.cools, key, now)]]

\* The least index from i on of a callback in kinds, 0 if there is none.
FirstAt(callbacks, i, kinds) ==
    LET found == {j \in i..Len(callbacks) : callbacks[j] \in kinds}
    IN  IF found = {} THEN 0
        ELSE CHOOSE j \in found : \A k \in found : j <= k

\* Mutant: the try around a callback is missing, so the first exception leaves
\* the loop and send_alert.
RunCallbacksUncaught(callbacks, i) ==
    LET j == FirstAt(callbacks, i, AsyncHandlers \cup Raising)
    IN  IF j # 0 /\ callbacks[j] \in Raising
        THEN [invoked |-> SubSeq(callbacks, i, j), at |-> 0, raised |-> TRUE]
        ELSE [invoked |-> SubSeq(callbacks, i, IF j = 0 THEN Len(callbacks) ELSE j),
              at |-> j, raised |-> FALSE]

\* The callback loop of send_alert from callback i up to its next suspension:
\* plain functions are called in turn, an exception of one is caught and logged,
\* and the first coroutine function is started and awaited.  invoked are the
\* callbacks started, at the index of the awaited one (0: the loop is over),
\* raised whether an exception left the loop.
RunCallbacks(callbacks, i) ==
    LET j == FirstAt(callbacks, i, AsyncHandlers)
    IN  [invoked |-> SubSeq(callbacks, i, IF j = 0 THEN Len(callbacks) ELSE j),
         at |-> j, raised |-> FALSE]

\* results[alert_type] = success, or False from except Exception; on to the next
\* coroutine.
Settled(call, success) ==
    [call EXCEPT !.results = Put(@, Head(call.alert_types), success),
                 !.alert_types = Tail(@),
                 !.at = 0]

Started(call, alert_type, invoked) ==
    [call EXCEPT !.handled = Put(@, alert_type, Stamps(@, alert_type) \o invoked)]

RECURSIVE Run(_, _)
RECURSIVE AfterCallbacks(_, _, _)

\* The call after a stretch r of its callback loop: suspended in the awaited
\* callback, or through with the channel and on to the next one.
AfterCallbacks(st, call, r) ==
    LET progressed == Started(call, Head(call.alert_types), r.invoked)
    IN  IF r.at # 0
        THEN [st |-> st, call |-> [progressed EXCEPT !.at = r.at], done |-> FALSE]
        ELSE Run(st, Settled(progressed, ~r.raised))

\* The awaits of send_multiple_alerts, one coroutine after the other, up to the
\* next suspension or the return.
Run(st, call) ==
    IF call.alert_types = <<>>
    THEN [st |-> st, call |-> call, done |-> TRUE]
    ELSE LET alert_type == Head(call.alert_types)
             admitted == Admission(st, call.user_id, alert_type, call.level,
                                   call.message, call.confidence)
         IN  IF admitted.ok
             THEN AfterCallbacks(admitted.st, call,
                                 RunCallbacks(alert_callbacks[alert_type], 1))
             ELSE Run(admitted.st, Settled(Started(call, alert_type, <<>>), FALSE))

\* send_multiple_alerts returning its results.
ReturnedAll(call) ==
    [Returned("send_multiple_alerts", call.user_id, "", call.confidence, TRUE, <<>>)
        EXCEPT !.results = call.results, !.handled = call.handled]

\* A call suspended in a callback of the channel it is dispatching.
Awaiting(call) ==
    Returned("await", call.user_id, Head(call.alert_types), call.confidence,
             FALSE, <<>>)

----------------------------------------------------------------------------
(* ScreenPeekDetector: gaze classification *)

\* Angles are in whole degrees.
MaxFaces == 2
PitchThreshold == 15
YawThreshold == 20

Pitches == {-15, -14, 0, 10, 15, 20}
Yaws == {-20, -19, 0, 5, 19, 20}
FaceConfidences == {80, 90}

\* How estimate_gaze_direction ends for a face: with angles computed from the
\* landmarks, or on one of its three fallback paths.
GazeFailures == {"empty_roi", "no_landmarks", "exception"}

Face(confidence, estimate, pitch, yaw) ==
    [confidence |-> confidence, estimate |-> estimate, pitch |-> pitch, yaw |-> yaw]

Faces ==
    { Face(c, "ok", p, y) : c \in FaceConfidences, p \in Pitches, y \in Yaws }
        \cup { Face(c, f, 0, 0) : c \in FaceConfidences, f \in GazeFailures }

Frames == UNION { [1..n -> Faces] : n \in 0..MaxFaces }

Abs(x) == IF x < 0 THEN -x ELSE x

\* Mutant: the thresholds themselves count as looking.
is_looking_at_screen_inclusive(gaze) ==
    Abs(gaze[1]) <= PitchThreshold /\ Abs(gaze[2]) <= YawThreshold

\* ScreenPeekDetector.is_looking_at_screen
is_looking_at_screen(gaze) ==
    Abs(gaze[1]) < PitchThreshold /\ Abs(gaze[2]) < YawThreshold

\* ScreenPeekDetector.estimate_gaze_direction: (pitch, yaw), and (0.0, 0.0) for
\* an empty face region, for missing landmarks and for any exception.
estimate_gaze_direction(face) ==
    IF face.estimate = "ok" THEN <<face.pitch, face.yaw>> ELSE <<0, 0>>

RECURSIVE MaxConfidence(_, _, _)
MaxConfidence(faces, looking, i) ==
    IF i = 0 THEN 0
    ELSE LET rest == MaxConfidence(faces, looking, i - 1)
         IN  IF looking[i] /\ faces[i].confidence > rest
             THEN faces[i].confidence
             ELSE rest

\* ScreenPeekDetector.process_frame on the faces detect_faces found; looking
\* keeps what is_looking_at_screen answered for each face.
process_frame(faces) ==
    LET gaze_angles == [i \in 1..Len(faces) |-> estimate_gaze_direction(faces[i])]
        looking == [i \in 1..Len(faces) |-> is_looking_at_screen(gaze_angles[i])]
        is_peeking == \E i \in 1..Len(faces) : looking[i]
    IN  [ is_peeking |-> is_peeking,
          confidence |-> IF is_peeking
                         THEN MaxConfidence(faces, looking, Len(faces))
                         ELSE 0,
          face_count |-> Len(faces),
          gaze_angles |-> gaze_angles,
          looking |-> looking ]

\* A frame handed to process_frame, and the frame with its result.
Pending(faces) == [faces |-> faces, result |-> process_frame(<<>>), done |-> FALSE]

Processed(faces) == [faces |-> faces, result |-> process_frame(faces), done |-> TRUE]

\* No frame at hand.
NoDetection == Processed(<<>>)

----------------------------------------------------------------------------
(* POST /process *)

\* detector = ScreenPeekDetector(): no screen region.
NoRegion == <<>>

\* The screen_region of a request: absent, complete, or partial.
NoRequestRegion == [k \in {} |-> 0]

RequestRegions ==
    { NoRequestRegion,
      [x |-> 10, y |-> 20, width |-> 800, height |-> 600],
      [x |-> 5] }

RequestUsers == {"", "u1", "u2"}

Get(d, k, default) == IF k \in DOMAIN d THEN d[k] ELSE default

Response(user_id, status_code, detail) ==
    [user_id |-> user_id, status_code |-> status_code, detail |-> detail]

NoReply == Response("", 0, "")

\* The frame send_detection_update wrote for process_detection, or failed to.
DetectionFrame(user_id, ok) ==
    [op |-> "detection_update", user_id |-> user_id, ok |-> ok, task |-> 0]

----------------------------------------------------------------------------
(* A long run of dispatches *)

\* The engine after n visual alerts under the default configuration, one every
\* cooldown period, each for u1 or u2: every one of them is admitted, being out
\* of cooldown and at most the twentieth of its pair within a minute.
RunPeriod == DefaultConfigs["visual"].cooldown

RunLengths == (MaxRun - 3)..MaxRun

\* Every m-th alert of the run is for u1, the others are for u2.
RunShares == 1..4

RunUser(i, m) == IF i % m = 0 THEN "u1" ELSE "u2"

RunEvent(i, user_id) ==
    [alert_id |-> AlertId(user_id, "visual", RunPeriod * i),
     user_id |-> user_id, alert_type |-> "visual", level |-> "medium",
     message |-> MessageFor("", DefaultConfigs["visual"]),
     timestamp |-> RunPeriod * i, confidence |-> 70]

RunHistory(n, m) == [i \in 1..n |-> RunEvent(i, RunUser(i, m))]

\* The timestamps of user_id's alerts in the run, in order.
RunStamps(n, m, user_id) ==
    LET own == SelectSeq(RunHistory(n, m), LAMBDA alert : alert.user_id = user_id)
    IN  [i \in 1..Len(own) |-> own[i].timestamp]

RunKeys(n, m) == { Key(RunUser(i, m), "visual") : i \in 1..n }

AfterRun(n, m) ==
    /\ now = RunPeriod * n
    /\ alert_history = RunHistory(n, m)
    /\ cooldowns =
           [key \in RunKeys(n, m) |->
               LET user_id == CHOOSE u \in Users : Key(u, "visual") = key
                   stamps == RunStamps(n, m, user_id)
               IN  stamps[Len(stamps)]]
    /\ rate_limits =
           [key \in RunKeys(n, m) |->
               LET user_id == CHOOSE u \in Users : Key(u, "visual") = key
                   stamps == RunStamps(n, m, user_id)
               IN  Prune(stamps, stamps[Len(stamps)])]

----------------------------------------------------------------------------
(* AlertService *)

\* AlertService() before its first dispatch.
NoDispatch ==
    /\ now = 0
    /\ alert_history = <<>>
    /\ rate_limits = <<>>
    /\ cooldowns = <<>>

\* The default configurations, no handler, no call under way, no socket, no
\* loop, no request served.
Wiring ==
    /\ alert_configs = DefaultConfigs
    /\ alert_callbacks = [c \in Channels |-> <<>>]
    /\ last = Returned("init", "", "", 0, FALSE, <<>>)
    /\ calls = [caller \in Callers |-> Idle]
    /\ active_connections = <<>>
    /\ detection_tasks = <<>>
    /\ sockets = <<>>
    /\ tasks = <<>>
    /\ slast = [op |-> "none", user_id |-> "", ok |-> TRUE, task |-> 0]
    /\ screen_region = NoRegion
    /\ reply = NoReply

Constructed == NoDispatch /\ Wiring

Init == Constructed /\ detected = NoDetection

\* time.time() moves on between calls.
Tick ==
    /\ \E t \in Instants : t > now /\ now' = t
    /\ last' = Returned("tick", "", "", 0, FALSE, <<>>)
    /\ UNCHANGED <<alert_configs, alert_history, alert_callbacks, rate_limits,
                   cooldowns>>
    /\ UNCHANGED <<calls, sessionVars, detectorVars>>

\* send_alert returning False before _can_send_alert touches anything.
Rejected(user_id, alert_type, confidence) ==
    /\ last' = Returned("send_alert", user_id, alert_type, confidence, FALSE, <<>>)
    /\ UNCHANGED <<now, alert_configs, alert_history, alert_callbacks,
                   rate_limits, cooldowns>>
    /\ UNCHANGED <<calls, sessionVars, detectorVars>>

\* Mutant: the rejected attempt is counted in the window.
RejectedByRateCounted(user_id, alert_type, confidence) ==
    /\ rate_limits' = Put(rate_limits, Key(user_id, alert_type),
                          Append(PrunedList(Key(user_id, alert_type), now), now))
    /\ last' = Returned("send_alert", user_id, alert_type, confidence, FALSE, <<>>)
    /\ UNCHANGED <<now, alert_configs, alert_history, alert_callbacks, cooldowns>>
    /\ UNCHANGED <<calls, sessionVars, detectorVars>>

\* _can_send_alert returning False at the rate check, after it has stored the
\* pruned list.
RejectedByRate(user_id, alert_type, confidence) ==
    /\ rate_limits' = Put(rate_limits, Key(user_id, alert_type),
                          PrunedList(Key(user_id, alert_type), now))
    /\ last' = Returned("send_alert", user_id, alert_type, confidence, FALSE, <<>>)
    /\ UNCHANGED <<now, alert_configs, alert_history, alert_callbacks, cooldowns>>
    /\ UNCHANGED <<calls, sessionVars, detectorVars>>

\* Mutant: the admitted dispatch restarts the cooldown of every pair on record.
AdmittedForAll(user_id, alert_type, level, message, confidence, t_id, t_ev, t_upd) ==
    LET config == alert_configs[alert_type]
        key == Key(user_id, alert_type)
        alert_event ==
            [alert_id |-> AlertId(user_id, alert_type, t_id),
             user_id |-> user_id, alert_type |-> alert_type, level |-> level,
             message |-> MessageFor(message, config), timestamp |-> t_ev,
             confidence |-> confidence]
    IN  /\ alert_history' = Append(alert_history, alert_event)
        /\ rate_limits' = Put(rate_limits, key, Append(PrunedList(key, now), t_upd))
        /\ cooldowns' = [k \in DOMAIN cooldowns \cup {key} |-> t_upd]
        /\ now' = t_upd
        /\ last' = Returned("send_alert", user_id, alert_type, confidence, TRUE,
                            alert_callbacks[alert_type])
        /\ UNCHANGED <<alert_configs, alert_callbacks>>
        /\ UNCHANGED <<calls, sessionVars, detectorVars>>

\* Mutant: lastSentAt is taken from the clock reading of the event's timestamp.
AdmittedTwoReads(user_id, alert_type, level, message, confidence, t_id, t_ev, t_upd) ==
    LET config == alert_configs[alert_type]
        key == Key(user_id, alert_type)
        alert_event ==
            [alert_id |-> AlertId(user_id, alert_type, t_id),
             user_id |-> user_id, alert_type |-> alert_type, level |-> level,
             message |-> MessageFor(message, config), timestamp |-> t_ev,
             confidence |-> confidence]
    IN  /\ alert_history' = Append(alert_history, alert_event)
        /\ rate_limits' = Put(rate_limits, key, Append(PrunedList(key, now), t_upd))
        /\ cooldowns' = Put(cooldowns, key, t_ev)
        /\ now' = t_upd
        /\ last' = Returned("send_alert", user_id, alert_type, confidence, TRUE,
                            alert_callbacks[alert_type])
        /\ UNCHANGED <<alert_configs, alert_callbacks>>
        /\ UNCHANGED <<calls, sessionVars, detectorVars>>

\* The event is created, recorded, and every callback of the channel is run; an
\* exception of a callback is caught and logged.
Admitted(user_id, alert_type, level, message, confidence, t_id, t_ev, t_upd) ==
    LET config == alert_configs[alert_type]
        key == Key(user_id, alert_type)
        alert_event ==
            [alert_id |-> AlertId(user_id, alert_type, t_id),
             user_id |-> user_id, alert_type |-> alert_type, level |-> level,
             message |-> MessageFor(message, config), timestamp |-> t_ev,
             confidence |-> confidence]
    IN  /\ alert_history' = Append(alert_history, alert_event)
        /\ rate_limits' = Put(rate_limits, key, Append(PrunedList(key, now), t_upd))
        /\ cooldowns' = Put(cooldowns, key, t_upd)
        /\ now' = t_upd
        /\ last' = Returned("send_alert", user_id, alert_type, confidence, TRUE,
                            alert_callbacks[alert_type])
        /\ UNCHANGED <<alert_configs, alert_callbacks>>
        /\ UNCHANGED <<calls, sessionVars, detectorVars>>

send_alert(user_id, alert_type, level, message, confidence) ==
    LET config == alert_configs[alert_type]
        key == Key(user_id, alert_type)
    IN  IF config = NoConfig THEN Rejected(user_id, alert_type, confidence)
        ELSE IF BelowThreshold(confidence, config)
            THEN Rejected(user_id, alert_type, confidence)
        ELSE IF ~config.enabled THEN Rejected(user_id, alert_type, confidence)
        ELSE IF InCooldown(key, config, now)
            THEN Rejected(user_id, alert_type, confidence)
        ELSE IF RateLimited(key, config, now)
            THEN RejectedByRate(user_id, alert_type, confidence)
        ELSE /\ Len(alert_history) < MaxHistory
             /\ \E t_id, t_ev, t_upd \in {now + d : d \in ClockDrifts} :
                    /\ t_id <= t_ev
                    /\ t_ev <= t_upd
                    /\ Admitted(user_id, alert_type, level, message, confidence,
                                t_id, t_ev, t_upd)

SendAlert ==
    \E user_id \in Users, alert_type \in Channels, level \in Levels,
       message \in Messages, confidence \in Confidences :
        send_alert(user_id, alert_type, level, message, confidence)

update_config(alert_type, config) ==
    /\ alert_configs' = [alert_configs EXCEPT ![alert_type] = config]
    /\ last' = Returned("update_config", "", alert_type, 0, TRUE, <<>>)
    /\ UNCHANGED <<now, alert_history, alert_callbacks, rate_limits, cooldowns>>
    /\ UNCHANGED <<calls, sessionVars, detectorVars>>

UpdateConfig ==
    \E alert_type \in Reconfigured, config \in ConfigInputs :
        update_config(alert_type, config)

\* Mutant: the oldest event is dropped once the history holds two.
register_callback_trimming(alert_type, callback) ==
    /\ Len(alert_callbacks[alert_type]) < MaxCallbacks
    /\ alert_callbacks' =
           [alert_callbacks EXCEPT ![alert_type] = Append(@, callback)]
    /\ alert_history' = IF Len(alert_history) >= 2 THEN Tail(alert_history)
                        ELSE alert_history
    /\ last' = Returned("register_callback", "", alert_type, 0, TRUE, <<>>)
    /\ UNCHANGED <<now, alert_configs, rate_limits, cooldowns>>
    /\ UNCHANGED <<calls, sessionVars, detectorVars>>

register_callback(alert_type, callback) ==
    /\ Len(alert_callbacks[alert_type]) < MaxCallbacks
    /\ alert_callbacks' =
           [alert_callbacks EXCEPT ![alert_type] = Append(@, callback)]
    /\ last' = Returned("register_callback", "", alert_type, 0, TRUE, <<>>)
    /\ UNCHANGED <<now, alert_configs, alert_history, rate_limits, cooldowns>>
    /\ UNCHANGED <<calls, sessionVars, detectorVars>>

RegisterCallback ==
    \E alert_type \in Registered, callback \in Handlers :
        register_callback(alert_type, callback)

\* The admission gates under configuration changes.
Next ==
    \/ Tick
    \/ SendAlert
    \/ UpdateConfig

Spec == Init /\ [][Next]_vars

\* update_config called with whatever an AlertConfig can hold: the dataclass
\* checks no field.
UpdateConfigAny ==
    \E alert_type \in Reconfigured, config \in ConfigInputs \cup InvalidConfigs :
        update_config(alert_type, config)

\* Dispatch under configurations of any content, at one clock reading.
ConfigNext ==
    \/ SendAlert
    \/ UpdateConfigAny

ConfigSpec == Init /\ [][ConfigNext]_vars

\* A caller reads the history.
GetAlertHistory ==
    \E user_id \in UserArgs, limit \in Limits :
        /\ last' = [Returned("get_alert_history", user_id, "", 0, TRUE, <<>>)
                        EXCEPT !.events = get_alert_history(user_id, limit)]
        /\ UNCHANGED <<now, alert_configs, alert_history, alert_callbacks,
                       rate_limits, cooldowns>>
        /\ UNCHANGED <<calls, sessionVars, detectorVars>>

\* A caller reads the statistics.
GetAlertStats ==
    \E user_id \in UserArgs :
        /\ last' = [Returned("get_alert_stats", user_id, "", 0, TRUE, <<>>)
                        EXCEPT !.stats = get_alert_stats(user_id)]
        /\ UNCHANGED <<now, alert_configs, alert_history, alert_callbacks,
                       rate_limits, cooldowns>>
        /\ UNCHANGED <<calls, sessionVars, detectorVars>>

\* Mutant: the clear also forgets the admission state.
clear_history_resetting(user_id) ==
    /\ alert_history' =
           IF user_id # AllUsers
           THEN SelectSeq(alert_history, LAMBDA alert : alert.user_id # user_id)
           ELSE <<>>
    /\ cooldowns' = <<>>
    /\ rate_limits' = <<>>
    /\ last' = Returned("clear_history", user_id, "", 0, TRUE, <<>>)
    /\ UNCHANGED <<now, alert_configs, alert_callbacks>>
    /\ UNCHANGED <<calls, sessionVars, detectorVars>>

\* AlertService.clear_history
clear_history(user_id) ==
    /\ alert_history' =
           IF user_id # AllUsers
           THEN SelectSeq(alert_history, LAMBDA alert : alert.user_id # user_id)
           ELSE <<>>
    /\ last' = Returned("clear_history", user_id, "", 0, TRUE, <<>>)
    /\ UNCHANGED <<now, alert_configs, alert_callbacks, rate_limits, cooldowns>>
    /\ UNCHANGED <<calls, sessionVars, detectorVars>>

ClearHistory == \E user_id \in UserArgs : clear_history(user_id)

\* Every operation on the history, with the reads and the administrative clear,
\* around one clock reading.
HistoryNext ==
    \/ SendAlert
    \/ UpdateConfig
    \/ RegisterCallback
    \/ GetAlertHistory
    \/ GetAlertStats
    \/ ClearHistory

HistorySpec == Init /\ [][HistoryNext]_vars

\* The read operations on the engine after a long run.
StatsInit ==
    /\ \E n \in RunLengths, m \in RunShares : AfterRun(n, m)
    /\ Wiring
    /\ detected = NoDetection

StatsNext ==
    \/ GetAlertHistory
    \/ GetAlertStats

StatsSpec == StatsInit /\ [][StatsNext]_vars

\* What a run of a caller's call leaves: the engine fields, and the call either
\* returned to its caller or parked in its await.
Ran(caller, out) ==
    /\ Len(out.st.history) <= MaxHistory
    /\ alert_history' = out.st.history
    /\ rate_limits' = out.st.rates
    /\ cooldowns' = out.st.cools
    /\ IF out.done
       THEN /\ calls' = [calls EXCEPT ![caller] = Idle]
            /\ last' = ReturnedAll(out.call)
       ELSE /\ calls' = [calls EXCEPT ![caller] = out.call]
            /\ last' = Awaiting(out.call)
    /\ UNCHANGED <<now, alert_configs, alert_callbacks>>
    /\ UNCHANGED <<sessionVars, detectorVars>>

send_multiple_alerts(caller, user_id, alert_types, level, message, confidence) ==
    /\ calls[caller] = Idle
    /\ Ran(caller, Run(EngineState,
                       NewCall(user_id, alert_types, level, message, confidence)))

SendMultipleAlerts ==
    \E caller \in Callers, user_id \in Dispatched, alert_types \in AlertTypeLists,
       level \in Levels, message \in Messages, confidence \in Confidences :
        send_multiple_alerts(caller, user_id, alert_types, level, message,
                             confidence)

\* The coroutine a call awaits returns or raises, and the call runs on from the
\* next callback.
callback_completes(caller) ==
    LET call == calls[caller]
        callbacks == alert_callbacks[Head(call.alert_types)]
    IN  /\ call # Idle
        /\ callbacks[call.at] \in Completing
        /\ Ran(caller, AfterCallbacks(EngineState, call,
                                      RunCallbacks(callbacks, call.at + 1)))

CallbackCompletes == \E caller \in Callers : callback_completes(caller)

\* Handlers of either kind are registered while no call is under way.
RegisterHandler ==
    \E alert_type \in Channels :
        \E callback \in Wired[alert_type] :
            /\ \A caller \in Callers : calls[caller] = Idle
            /\ register_callback(alert_type, callback)

\* A channel the constructor left out is given the Burst configuration while no
\* call is under way.
ConfigureBurst ==
    \E alert_type \in {c \in Channels : DefaultConfigs[c] = NoConfig} :
        /\ \A caller \in Callers : calls[caller] = Idle
        /\ update_config(alert_type, Burst)

\* Concurrent fan-out to handlers, at one clock reading.
FanOutNext ==
    \/ SendMultipleAlerts
    \/ CallbackCompletes
    \/ RegisterHandler
    \/ ConfigureBurst

FanOutSpec == Init /\ [][FanOutNext]_vars

\* Dispatch with registered handlers, under the constructor's configuration.
HandlerNext ==
    \/ Tick
    \/ SendAlert
    \/ RegisterCallback

HandlerSpec == Init /\ [][HandlerNext]_vars

----------------------------------------------------------------------------
(* DetectionConnectionManager and the detection session operations *)

\* The users whose sessions are followed.
SessionUsers == {"u1"}

\* What a client sends on its socket: the three known types, a JSON object of
\* another type, and text that json.loads refuses.
ControlMessages ==
    {"start_detection", "stop_detection", "update_config", "other", "malformed"}

\* What send_text does with a frame: writes it, suspends before writing, or raises.
SendOutcomes == {"written", "blocked", "failed"}

Drop(f, k) == [x \in DOMAIN f \ {k} |-> f[x]]

\* A websocket_detection handler that has returned.
Closed == [user |-> "", open |-> FALSE]

\* Steps that serve no request and write no frame.
Silent == [op |-> "none", user_id |-> "", ok |-> TRUE, task |-> 0]

\* The JSON answer of DELETE /stop/{user_id}, or the HTTP 500 in its place.
StopResponse(user_id, ok) ==
    [op |-> "DELETE_stop", user_id |-> user_id, ok |-> ok, task |-> 0]

\* A control message taken off a socket of user_id.
Control(message, user_id) ==
    [op |-> message, user_id |-> user_id, ok |-> TRUE, task |-> 0]

\* A status_update frame written by task t to its user's socket.
StatusFrame(t) ==
    [op |-> "status_update", user_id |-> tasks[t].user, ok |-> TRUE, task |-> t]

\* A send_text of task t that raised: send_detection_update logs the error.
SendFailed(t) ==
    [op |-> "send_failed", user_id |-> tasks[t].user, ok |-> FALSE, task |-> t]

\* receive_text of a socket of user_id raising WebSocketDisconnect.
Disconnected(user_id) ==
    [op |-> "WebSocketDisconnect", user_id |-> user_id, ok |-> TRUE, task |-> 0]

\* A task from asyncio.create_task: not yet run, no cancellation requested.
NewTask(user_id) == [user |-> user_id, pc |-> "new", cancel |-> FALSE]

Live(t) == tasks[t].pc # "done"

\* user_id in manager.detection_tasks
TaskRegistered(user_id) == user_id \in DOMAIN detection_tasks

\* Task.cancel(): requests cancellation; the task runs on until the event loop
\* next steps it.  On a finished task it does nothing.
Cancel(ts, t) == IF ts[t].pc = "done" THEN ts ELSE [ts EXCEPT ![t].cancel = TRUE]

\* manager.detection_tasks[user_id].cancel(); del manager.detection_tasks[user_id]
CancelAndDrop(user_id) ==
    /\ tasks' = Cancel(tasks, detection_tasks[user_id])
    /\ detection_tasks' = Drop(detection_tasks, user_id)

\* Mutant: the "already running" check is missing.
StartAlways(user_id) ==
    /\ Len(tasks) < MaxTasks
    /\ tasks' = Append(tasks, NewTask(user_id))
    /\ detection_tasks' = Put(detection_tasks, user_id, Len(tasks) + 1)

start_continuous_detection(user_id) ==
    IF TaskRegistered(user_id)
    THEN UNCHANGED <<tasks, detection_tasks>>
    ELSE /\ Len(tasks) < MaxTasks
         /\ tasks' = Append(tasks, NewTask(user_id))
         /\ detection_tasks' = Put(detection_tasks, user_id, Len(tasks) + 1)

\* Mutant: disconnect leaves the registered socket in place.
disconnect_loop_only(user_id) ==
    /\ UNCHANGED active_connections
    /\ IF TaskRegistered(user_id)
       THEN CancelAndDrop(user_id)
       ELSE UNCHANGED <<tasks, detection_tasks>>

\* Mutant: disconnect forgets the user's loop.
disconnect_connection_only(user_id) ==
    /\ active_connections' = Drop(active_connections, user_id)
    /\ UNCHANGED <<tasks, detection_tasks>>

\* DetectionConnectionManager.disconnect
disconnect(user_id) ==
    /\ active_connections' = Drop(active_connections, user_id)
    /\ IF TaskRegistered(user_id)
       THEN CancelAndDrop(user_id)
       ELSE UNCHANGED <<tasks, detection_tasks>>

\* websocket_detection up to its first receive: accept, then register the socket.
connect(user_id) ==
    /\ Len(sockets) < MaxSockets
    /\ sockets' = Append(sockets, [user |-> user_id, open |-> TRUE])
    /\ active_connections' = Put(active_connections, user_id, Len(sockets) + 1)
    /\ slast' = Silent
    /\ UNCHANGED <<tasks, detection_tasks>>
    /\ UNCHANGED <<engineVars, detectorVars>>

Connect == \E user_id \in SessionUsers : connect(user_id)

\* One turn of the receive loop of websocket_detection on socket s.
receive(s, message) ==
    LET user_id == sockets[s].user
    IN  /\ sockets[s].open
        /\ slast' = Control(message, user_id)
        /\ UNCHANGED <<engineVars, detectorVars>>
        /\ CASE message = "start_detection" ->
                    /\ start_continuous_detection(user_id)
                    /\ UNCHANGED <<active_connections, sockets>>
             [] message = "stop_detection" ->
                    /\ IF TaskRegistered(user_id)
                       THEN CancelAndDrop(user_id)
                       ELSE UNCHANGED <<tasks, detection_tasks>>
                    /\ UNCHANGED <<active_connections, sockets>>
             [] message \in {"update_config", "other"} ->
                    UNCHANGED <<active_connections, detection_tasks, sockets, tasks>>
             [] message = "malformed" ->
                    \* json.loads raises; except Exception: manager.disconnect
                    /\ disconnect(user_id)
                    /\ sockets' = [sockets EXCEPT ![s] = Closed]

Receive ==
    \E s \in 1..Len(sockets), message \in ControlMessages : receive(s, message)

\* receive_text raises WebSocketDisconnect.
socket_closed(s) ==
    /\ sockets[s].open
    /\ disconnect(sockets[s].user)
    /\ sockets' = [sockets EXCEPT ![s] = Closed]
    /\ slast' = Disconnected(sockets[s].user)
    /\ UNCHANGED <<engineVars, detectorVars>>

SocketClosed == \E s \in 1..Len(sockets) : socket_closed(s)

\* Mutant: the membership test is missing, so a stop without a loop raises
\* KeyError and is answered with HTTP 500.
stop_detection_unguarded(user_id) ==
    /\ IF TaskRegistered(user_id)
       THEN CancelAndDrop(user_id)
       ELSE UNCHANGED <<tasks, detection_tasks>>
    /\ slast' = StopResponse(user_id, TaskRegistered(user_id))
    /\ UNCHANGED <<active_connections, sockets>>
    /\ UNCHANGED <<engineVars, detectorVars>>

\* DELETE /stop/{user_id}
stop_detection(user_id) ==
    /\ IF TaskRegistered(user_id)
       THEN CancelAndDrop(user_id)
       ELSE UNCHANGED <<tasks, detection_tasks>>
    /\ slast' = StopResponse(user_id, TRUE)
    /\ UNCHANGED <<active_connections, sockets>>
    /\ UNCHANGED <<engineVars, detectorVars>>

StopDetection == \E user_id \in SessionUsers : stop_detection(user_id)

\* Mutant: the loop pushes one more status frame when it is cancelled.
LoopCancelledAfterFrame(t) ==
    /\ tasks' = [tasks EXCEPT ![t].pc = "done"]
    /\ slast' = StatusFrame(t)

\* The CancelledError delivered at the task's suspension point: except
\* asyncio.CancelledError: break.  A task cancelled before its first step ends
\* without entering the loop.
LoopCancelled(t) ==
    /\ tasks' = [tasks EXCEPT ![t].pc = "done"]
    /\ slast' = Silent

\* Mutant: the loop sleeps on without pushing.
PushStatusSkipped(t, outcome) ==
    /\ tasks' = [tasks EXCEPT ![t].pc = "sleep"]
    /\ slast' = Silent

\* manager.send_detection_update from the loop, once the sleep is over.
PushStatus(t, outcome) ==
    IF tasks[t].user \notin DOMAIN active_connections
    THEN /\ tasks' = [tasks EXCEPT ![t].pc = "sleep"]
         /\ slast' = Silent
    ELSE CASE outcome = "written" ->
                /\ tasks' = [tasks EXCEPT ![t].pc = "sleep"]
                /\ slast' = StatusFrame(t)
           [] outcome = "blocked" ->
                /\ tasks[t].pc = "sleep"
                /\ tasks' = [tasks EXCEPT ![t].pc = "send"]
                /\ slast' = Silent
           [] outcome = "failed" ->
                \* except Exception in send_detection_update: logged
                /\ tasks' = [tasks EXCEPT ![t].pc = "sleep"]
                /\ slast' = SendFailed(t)

\* The event loop runs task t up to its next suspension point.
loop_step(t) ==
    /\ Live(t)
    /\ IF tasks[t].cancel
       THEN LoopCancelled(t)
       ELSE IF tasks[t].pc = "new"
       THEN /\ tasks' = [tasks EXCEPT ![t].pc = "sleep"]
            /\ slast' = Silent
       ELSE \E outcome \in SendOutcomes : PushStatus(t, outcome)
    /\ UNCHANGED <<active_connections, detection_tasks, sockets>>
    /\ UNCHANGED <<engineVars, detectorVars>>

LoopStep == \E t \in 1..Len(tasks) : loop_step(t)

\* except Exception in detection_loop: the error is logged and the loop breaks.
loop_fault(t) ==
    /\ tasks[t].pc \in {"sleep", "send"}
    /\ ~tasks[t].cancel
    /\ tasks' = [tasks EXCEPT ![t].pc = "done"]
    /\ slast' = Silent
    /\ UNCHANGED <<active_connections, detection_tasks, sockets>>
    /\ UNCHANGED <<engineVars, detectorVars>>

LoopFault == \E t \in 1..Len(tasks) : loop_fault(t)

SessionNext ==
    \/ Connect
    \/ Receive
    \/ SocketClosed
    \/ StopDetection
    \/ LoopStep
    \/ LoopFault

SessionSpec == Init /\ [][SessionNext]_vars

\* The event loop runs every task that is ready to run.
FairSessionSpec ==
    SessionSpec /\ \A t \in 1..MaxTasks : WF_vars(t <= Len(tasks) /\ loop_step(t))

----------------------------------------------------------------------------
(* Properties of the alert dispatch engine *)

\* Every step that changes the state records its call in last', and Tick records
\* itself, so last'.op tells which operation a step is.
IsSendAlertStep == last'.op = "send_alert"

AppendsOneEvent ==
    /\ Len(alert_history') = Len(alert_history) + 1
    /\ SubSeq(alert_history', 1, Len(alert_history)) = alert_history

NewEvent == alert_history'[Len(alert_history')]

SameKey(e, f) == e.user_id = f.user_id /\ e.alert_type = f.alert_type

\* C1: an admitted dispatch is timestamped at least the channel's cooldown after
\* every earlier admitted dispatch of the same (user, channel), and a send_alert
\* issued while now - lastSentAt < cooldown returns False and records no event.
C1_CooldownSpacing ==
    [][IsSendAlertStep =>
        LET config == alert_configs[last'.alert_type]
            key == Key(last'.user_id, last'.alert_type)
        IN  /\ AppendsOneEvent =>
                \A i \in 1..Len(alert_history) :
                    SameKey(alert_history[i], NewEvent) =>
                        NewEvent.timestamp - alert_history[i].timestamp
                            >= config.cooldown
            /\ ( /\ config # NoConfig
                 /\ key \in DOMAIN cooldowns
                 /\ now - cooldowns[key] < config.cooldown )
                => ~last'.result /\ alert_history' = alert_history
      ]_vars

\* Cooldown 3: events of one pair exactly 3 seconds apart, then a further dispatch
\* of that pair rejected inside the cooldown.
C1_Witness ==
    /\ Len(alert_history) = 2
    /\ SameKey(alert_history[1], alert_history[2])
    /\ alert_configs[alert_history[2].alert_type] # NoConfig
    /\ alert_configs[alert_history[2].alert_type].cooldown = 3
    /\ alert_history[2].timestamp - alert_history[1].timestamp = 3
    /\ last.op = "send_alert"
    /\ ~last.result
    /\ last.user_id = alert_history[2].user_id
    /\ last.alert_type = alert_history[2].alert_type
    /\ last.confidence >= alert_configs[last.alert_type].threshold
    /\ now - cooldowns[Key(last.user_id, last.alert_type)] < 3

\* The events of e's (user, channel) timestamped in the 60 seconds up to and
\* including e's timestamp: the window (e.timestamp - 60, e.timestamp].
InTrailingWindow(history, e) ==
    {i \in 1..Len(history) :
        /\ SameKey(history[i], e)
        /\ history[i].timestamp > e.timestamp - WindowSeconds
        /\ history[i].timestamp <= e.timestamp}

\* C2: after an admitted dispatch, the admitted dispatches of its (user, channel)
\* timestamped in the trailing 60-second window number at most the channel's
\* max_frequency.
C2_WindowBound ==
    [][(IsSendAlertStep /\ AppendsOneEvent) =>
        Cardinality(InTrailingWindow(alert_history', NewEvent))
            <= alert_configs[last'.alert_type].max_frequency
      ]_vars

\* max_frequency 1 and no cooldown: an event, a rejection inside its window, and
\* a second event once the first has aged out.
C2_Witness ==
    /\ Len(alert_history) = 2
    /\ SameKey(alert_history[1], alert_history[2])
    /\ alert_configs[alert_history[2].alert_type] # NoConfig
    /\ alert_configs[alert_history[2].alert_type].max_frequency = 1
    /\ alert_configs[alert_history[2].alert_type].cooldown = 0
    /\ alert_history[2].timestamp - alert_history[1].timestamp = WindowSeconds
    /\ Len(rate_limits[Key(alert_history[2].user_id, alert_history[2].alert_type)]) = 1

\* C3: send_alert with a confidence below the channel's threshold returns False,
\* appends no event, runs no handler, and leaves cooldowns and rate_limits alone.
C3_BelowThresholdRejected ==
    [][(/\ IsSendAlertStep
        /\ alert_configs[last'.alert_type] # NoConfig
        /\ last'.confidence < alert_configs[last'.alert_type].threshold)
        => /\ ~last'.result
           /\ last'.invoked = <<>>
           /\ UNCHANGED <<alert_history, cooldowns, rate_limits>>
      ]_vars

\* A low-confidence dispatch refused for a pair that has a handler registered and
\* an earlier admitted dispatch on record.
C3_Witness ==
    /\ last.op = "send_alert"
    /\ ~last.result
    /\ alert_configs[last.alert_type] # NoConfig
    /\ last.confidence < alert_configs[last.alert_type].threshold
    /\ alert_callbacks[last.alert_type] # <<>>
    /\ Key(last.user_id, last.alert_type) \in DOMAIN cooldowns
    /\ now - cooldowns[Key(last.user_id, last.alert_type)] >= 3

\* The gates as the claim states them, on the state the call starts in.
RecentCount(key) ==
    IF key \in DOMAIN rate_limits
    THEN Cardinality({i \in 1..Len(rate_limits[key]) :
                        rate_limits[key][i] > now - WindowSeconds})
    ELSE 0

AllGatesPass(user_id, alert_type, confidence) ==
    LET config == alert_configs[alert_type]
        key == Key(user_id, alert_type)
    IN  /\ config # NoConfig
        /\ config.enabled
        /\ confidence >= config.threshold
        /\ key \notin DOMAIN cooldowns \/ now - cooldowns[key] >= config.cooldown
        /\ RecentCount(key) < config.max_frequency

\* C4: send_alert returns True exactly when it appended one event, which is
\* exactly when every gate passes; otherwise the history is left as it was.
C4_AdmittedIffGates ==
    [][IsSendAlertStep =>
        /\ last'.result <=>
                AllGatesPass(last'.user_id, last'.alert_type, last'.confidence)
        /\ last'.result <=> AppendsOneEvent
        /\ ~last'.result => alert_history' = alert_history
      ]_vars

\* Both boundaries at once: confidence equal to the threshold, and elapsed time
\* equal to the cooldown, admitted.
C4_Witness ==
    /\ last.op = "send_alert"
    /\ last.result
    /\ Len(alert_history) = 2
    /\ SameKey(alert_history[1], alert_history[2])
    /\ last.confidence = alert_configs[last.alert_type].threshold
    /\ alert_configs[last.alert_type].cooldown = 3
    /\ alert_history[2].timestamp - alert_history[1].timestamp = 3
    /\ cooldowns[Key(last.user_id, last.alert_type)] = alert_history[2].timestamp

Keys == {Key(user_id, alert_type) : user_id \in Users, alert_type \in Channels}

\* new is old, or old without its timestamps a full window or more before t.
OnlyPruned(old, new, t) ==
    \/ new = old
    \/ new = SelectSeq(old, LAMBDA ts : t - ts < WindowSeconds)

\* The step gives key a new lastSentAt or puts a timestamp into its window.
KeyAdvanced(key) ==
    \/ /\ key \in DOMAIN cooldowns'
       /\ key \notin DOMAIN cooldowns \/ cooldowns'[key] # cooldowns[key]
    \/ ~OnlyPruned(Stamps(rate_limits, key), Stamps(rate_limits', key), now)

AdmittedInWindow(key, t) ==
    {i \in 1..Len(alert_history) :
        /\ Key(alert_history[i].user_id, alert_history[i].alert_type) = key
        /\ t - alert_history[i].timestamp < WindowSeconds}

\* C19: under a configuration with cooldown 0 and max_frequency M, a dispatch that
\* passes the threshold is rejected when M dispatches of its pair were admitted
\* in the last 60 seconds, and is admitted when the pair's earliest recorded
\* timestamp is 60 seconds old or older and fewer than M recorded ones are younger.
C19_RateRecovery ==
    [][LET config == alert_configs[last'.alert_type]
           key == Key(last'.user_id, last'.alert_type)
           stamps == Stamps(rate_limits, key)
       IN  ( /\ IsSendAlertStep
             /\ config # NoConfig
             /\ config.enabled
             /\ config.cooldown = 0
             /\ last'.confidence >= config.threshold )
           => /\ Cardinality(AdmittedInWindow(key, now)) >= config.max_frequency
                    => ~last'.result /\ alert_history' = alert_history
              /\ ( /\ stamps # <<>>
                   /\ now - stamps[1] >= WindowSeconds
                   /\ Cardinality({i \in 1..Len(stamps) :
                                      now - stamps[i] < WindowSeconds})
                          < config.max_frequency )
                    => last'.result /\ AppendsOneEvent
      ]_vars

\* Cooldown 0, max_frequency 1: a second dispatch of a pair admitted exactly 60
\* seconds after the first, whose timestamp has left the window.
C19_Witness ==
    /\ last.op = "send_alert"
    /\ last.result
    /\ alert_configs[last.alert_type] # NoConfig
    /\ alert_configs[last.alert_type].cooldown = 0
    /\ alert_configs[last.alert_type].max_frequency = 1
    /\ Len(alert_history) = 2
    /\ SameKey(alert_history[1], alert_history[2])
    /\ alert_history[2].user_id = last.user_id
    /\ alert_history[2].alert_type = last.alert_type
    /\ alert_history[2].timestamp - alert_history[1].timestamp = WindowSeconds
    /\ Len(rate_limits[Key(last.user_id, last.alert_type)]) = 1

\* threshold within [0, 1], cooldown and max_frequency not negative
ValidConfig(config) ==
    /\ config.threshold \in 0..100
    /\ config.cooldown >= 0
    /\ config.max_frequency >= 0

\* C20: update_config refuses a configuration with a threshold outside [0, 1], a
\* negative cooldown or a negative max_frequency and keeps the previous one, so
\* every configuration in force is valid.
C20_InvalidConfigRefused ==
    \A alert_type \in Channels :
        alert_configs[alert_type] # NoConfig => ValidConfig(alert_configs[alert_type])

\* C18: in every step other than clear_history (send_alert, update_config,
\* register_callback, get_alert_history, get_alert_stats) each event of the
\* history stays, unmodified, at its position.
C18_HistoryAppendOnly ==
    [][last'.op # "clear_history" =>
        /\ Len(alert_history') >= Len(alert_history)
        /\ SubSeq(alert_history', 1, Len(alert_history)) = alert_history
      ]_vars

\* Two events on record with a handler registered, and a statistics call just
\* served from both.
C18_Witness ==
    /\ Len(alert_history) = 2
    /\ last.op = "get_alert_stats"
    /\ last.stats.total_alerts = 2
    /\ alert_callbacks["visual"] # <<>>

\* The events of (user_id, alert_type) on record after the step.
RecordedFor(user_id, alert_type) ==
    {i \in 1..Len(alert_history') :
        /\ alert_history'[i].user_id = user_id
        /\ alert_history'[i].alert_type = alert_type}

\* C14: when send_multiple_alerts returns, every requested channel whose handlers
\* were run, raising or not, is reported True, and for every channel reported
\* True the event is on record and each handler registered for the channel has
\* been invoked.
C14_HandlerErrorContained ==
    [][last'.op = "send_multiple_alerts" =>
        \A alert_type \in DOMAIN last'.results :
            /\ last'.handled[alert_type] # <<>> => last'.results[alert_type]
            /\ last'.results[alert_type] =>
                /\ last'.handled[alert_type] = alert_callbacks[alert_type]
                /\ RecordedFor(last'.user_id, alert_type) # {}
      ]_vars

\* A call for both channels returned True for both; on one of them a raising
\* handler is registered ahead of a second handler, and both were invoked.
C14_Witness ==
    /\ last.op = "send_multiple_alerts"
    /\ DOMAIN last.results = Channels
    /\ \A alert_type \in Channels : last.results[alert_type]
    /\ \E alert_type \in Channels :
        /\ Len(alert_callbacks[alert_type]) = 2
        /\ alert_callbacks[alert_type][1] \in Raising
        /\ last.handled[alert_type] = alert_callbacks[alert_type]
    /\ \A alert_type \in Channels : alert_callbacks[alert_type] # <<>>

\* C15: a call waiting on a coroutine handler that never completes has started
\* every handler of the channel and has dispatched every other channel it was
\* asked for, nothing else being left to start them.
C15_SlowHandlerDoesNotBlock ==
    \A caller \in Callers :
        LET call == calls[caller]
            alert_type == Head(call.alert_types)
        IN  ( /\ call # Idle
              /\ alert_callbacks[alert_type][call.at] \notin Completing )
            => /\ call.handled[alert_type] = alert_callbacks[alert_type]
               /\ Len(call.alert_types) = 1

\* The events of key a step appends.
AppendedFor(key) ==
    {i \in Len(alert_history) + 1..Len(alert_history') :
        Key(alert_history'[i].user_id, alert_history'[i].alert_type) = key}

\* C16: a step admits at most one dispatch of a (user, channel), and it admits it
\* on the cooldown and window state it finds and leaves that state updated, so
\* that no other call, running while this one waits in a handler, is admitted
\* on the same state.
C16_AdmissionAtomic ==
    [][\A key \in Keys :
        AppendedFor(key) # {} =>
            LET e == alert_history'[CHOOSE i \in AppendedFor(key) : TRUE]
                config == alert_configs[e.alert_type]
            IN  /\ Cardinality(AppendedFor(key)) = 1
                /\ config # NoConfig
                /\ ~InCooldown(key, config, now)
                /\ ~RateLimited(key, config, now)
                /\ key \in DOMAIN cooldowns'
                /\ cooldowns'[key] = e.timestamp
                /\ key \in DOMAIN rate_limits'
                /\ rate_limits'[key] = Append(PrunedList(key, now), e.timestamp)
      ]_vars

\* Two callers are both waiting in a handler of the same channel for the same
\* user, each with its event on record, the second admitted with the first's
\* timestamp in its window.
C16_Witness ==
    /\ \A caller \in Callers : calls[caller] # Idle
    /\ \E alert_type \in Channels, user_id \in Dispatched :
        /\ \A caller \in Callers :
            /\ Head(calls[caller].alert_types) = alert_type
            /\ calls[caller].user_id = user_id
            /\ calls[caller].results = <<>>
        /\ Len(alert_history) = 2
        /\ \A i \in 1..2 :
            /\ alert_history[i].alert_type = alert_type
            /\ alert_history[i].user_id = user_id
        /\ Len(rate_limits[Key(user_id, alert_type)]) = 2

\* C23: no two events of the history carry the same alert_id.
C23_UniqueAlertIds ==
    \A i, j \in 1..Len(alert_history) :
        i # j => alert_history[i].alert_id # alert_history[j].alert_id

\* C27: a send_alert for one (user, channel), admitted or rejected, leaves the
\* cooldown timestamp and the rate window of every other pair as they were.
C27_PairsIsolated ==
    [][IsSendAlertStep =>
        \A key \in Keys \ {Key(last'.user_id, last'.alert_type)} :
            /\ key \in DOMAIN cooldowns' <=> key \in DOMAIN cooldowns
            /\ key \in DOMAIN cooldowns => cooldowns'[key] = cooldowns[key]
            /\ key \in DOMAIN rate_limits' <=> key \in DOMAIN rate_limits
            /\ key \in DOMAIN rate_limits => rate_limits'[key] = rate_limits[key]
      ]_vars

\* A dispatch of one user admitted inside the cooldown that an earlier dispatch
\* of the other user on the same channel is still in.
C27_Witness ==
    /\ last.op = "send_alert"
    /\ last.result
    /\ Len(alert_history) = 2
    /\ alert_history[1].user_id # alert_history[2].user_id
    /\ alert_history[1].alert_type = alert_history[2].alert_type
    /\ alert_history[2].user_id = last.user_id
    /\ alert_history[2].timestamp - alert_history[1].timestamp = 1
    /\ cooldowns[Key(alert_history[1].user_id, alert_history[1].alert_type)]
           < cooldowns[Key(last.user_id, last.alert_type)]
    /\ alert_configs[last.alert_type].cooldown = 3

\* t never follows a later timestamp in stamps.
NonDecreasing(stamps) ==
    \A i, j \in 1..Len(stamps) : i <= j => stamps[i] <= stamps[j]

\* C30: the timestamps of every rate window are in non-decreasing order and the
\* last of a non-empty window is the pair's cooldown timestamp; a cooldown
\* timestamp, once set, stays set and never decreases.
C30_WindowAndCooldownOrdered ==
    /\ [](\A key \in DOMAIN rate_limits :
            /\ NonDecreasing(rate_limits[key])
            /\ rate_limits[key] # <<>> =>
                /\ key \in DOMAIN cooldowns
                /\ rate_limits[key][Len(rate_limits[key])] = cooldowns[key])
    /\ [][\A key \in DOMAIN cooldowns :
            /\ key \in DOMAIN cooldowns'
            /\ cooldowns'[key] >= cooldowns[key]
         ]_vars

\* A pair with two timestamps in its window, written by calls in which the clock
\* moved between the reads, the later one being its cooldown timestamp.
C30_Witness ==
    \E key \in DOMAIN rate_limits :
        /\ Len(rate_limits[key]) = 2
        /\ rate_limits[key][1] < rate_limits[key][2]
        /\ cooldowns[key] = rate_limits[key][2]
        /\ \E i \in 1..Len(alert_history) :
            /\ Key(alert_history[i].user_id, alert_history[i].alert_type) = key
            /\ alert_history[i].timestamp < rate_limits[key][2]
            /\ alert_history[i].timestamp > rate_limits[key][1]

\* The events of the history that are not user_id's, in their order.
OthersOf(history, user_id) ==
    SelectSeq(history, LAMBDA alert : alert.user_id # user_id)

\* C29: clear_history(user) leaves exactly the other users' events, in their
\* order, and clear_history() leaves none; either leaves the cooldown
\* timestamps, the rate windows, the configurations and the handlers as they
\* were, so a dispatch that follows a clear is refused whenever its pair is in
\* cooldown or at its per-minute limit.
C29_ClearKeepsAdmissionState ==
    [][/\ last'.op = "clear_history" =>
            /\ alert_history' = IF last'.user_id = AllUsers
                                THEN <<>>
                                ELSE OthersOf(alert_history, last'.user_id)
            /\ cooldowns' = cooldowns
            /\ rate_limits' = rate_limits
            /\ alert_configs' = alert_configs
            /\ alert_callbacks' = alert_callbacks
       /\ (last.op = "clear_history" /\ IsSendAlertStep) =>
            LET config == alert_configs[last'.alert_type]
                key == Key(last'.user_id, last'.alert_type)
            IN  (/\ config # NoConfig
                 /\ \/ InCooldown(key, config, now)
                    \/ RateLimited(key, config, now))
                    => /\ ~last'.result
                       /\ alert_history' = alert_history
      ]_vars

\* u1's events have just been cleared: u2's remain, and u1's cooldown
\* timestamps are still on record.
C29_Witness ==
    /\ last.op = "clear_history"
    /\ last.user_id = "u1"
    /\ Len(alert_history) > 0
    /\ \A i \in 1..Len(alert_history) : alert_history[i].user_id = "u2"
    /\ \E alert_type \in Channels : Key("u1", alert_type) \in DOMAIN cooldowns

RECURSIVE SumOf(_)
SumOf(counts) ==
    IF DOMAIN counts = {} THEN 0
    ELSE LET k == CHOOSE x \in DOMAIN counts : TRUE
         IN  counts[k] + SumOf([x \in DOMAIN counts \ {k} |-> counts[x]])

\* C22: get_alert_stats(user) reports as total_alerts the number of events the
\* history holds for that user (all events when no user is given), however long
\* the history is; its per-channel and per-level counts each sum to
\* total_alerts; and the call changes no field of the engine.
C22_StatsOverWholeHistory ==
    [][last'.op = "get_alert_stats" =>
        /\ last'.stats.total_alerts =
               Cardinality({ i \in 1..Len(alert_history) :
                               \/ last'.user_id = AllUsers
                               \/ alert_history[i].user_id = last'.user_id })
        /\ SumOf(last'.stats.alerts_by_type) = last'.stats.total_alerts
        /\ SumOf(last'.stats.alerts_by_level) = last'.stats.total_alerts
        /\ UNCHANGED <<now, alert_configs, alert_history, alert_callbacks,
                       rate_limits, cooldowns>>
      ]_vars

----------------------------------------------------------------------------
(* Properties of the detection session manager *)

LiveLoops(user_id) == {t \in 1..Len(tasks) : tasks[t].user = user_id /\ Live(t)}

\* C5: at every moment at most one sampling-loop task of a user is live, a task
\* being live from its creation until it has exited.
C5_AtMostOneLiveLoop ==
    \A user_id \in SessionUsers : Cardinality(LiveLoops(user_id)) <= 1

\* C6: a start_detection for a user whose loop is registered creates no task and
\* leaves the recorded handle as it is; a start for a user without one creates
\* exactly one task and records it.
C6_StartIdempotent ==
    [][slast'.op = "start_detection" =>
        IF slast'.user_id \in DOMAIN detection_tasks
        THEN UNCHANGED <<tasks, detection_tasks>>
        ELSE /\ Len(tasks') = Len(tasks) + 1
             /\ SubSeq(tasks', 1, Len(tasks)) = tasks
             /\ detection_tasks' =
                    Put(detection_tasks, slast'.user_id, Len(tasks'))
      ]_vars

\* A start arriving while the user's loop, already past its first step, is
\* registered, with two sockets of that user open to send it from.
C6_Witness ==
    /\ slast.op = "start_detection"
    /\ slast.user_id \in DOMAIN detection_tasks
    /\ Len(tasks) = 1
    /\ tasks[1].pc = "sleep"
    /\ Len(sockets) = 2
    /\ \A s \in 1..2 : sockets[s].open /\ sockets[s].user = slast.user_id

IsStopStep == slast'.op \in {"DELETE_stop", "stop_detection"}

\* C7: a stop for a user with no registered loop changes nothing and, over REST,
\* answers detection_stopped = true.
C7_StopIdempotent ==
    [][(IsStopStep /\ slast'.user_id \notin DOMAIN detection_tasks) =>
        /\ UNCHANGED <<tasks, detection_tasks, active_connections, sockets>>
        /\ slast'.ok
      ]_vars

\* A REST stop answered for a user whose loop an earlier stop had cancelled and
\* which has since exited.
C7_Witness ==
    /\ slast.op = "DELETE_stop"
    /\ slast.ok
    /\ slast.user_id \notin DOMAIN detection_tasks
    /\ slast.user_id \in DOMAIN active_connections
    /\ \E t \in 1..Len(tasks) :
        tasks[t].user = slast.user_id /\ tasks[t].cancel /\ ~Live(t)

\* C8: a loop whose cancellation has been requested writes no status frame, its
\* next step is its exit, and it does exit.
C8_CancelledLoopExitsSilently ==
    /\ [][\A t \in 1..Len(tasks) :
            (tasks[t].cancel /\ Live(t)) =>
                /\ ~(slast'.op = "status_update" /\ slast'.task = t)
                /\ tasks'[t] # tasks[t] => ~Live(t)'
         ]_vars
    /\ \A t \in 1..MaxTasks :
        (t <= Len(tasks) /\ tasks[t].cancel) ~> (t <= Len(tasks) /\ ~Live(t))

\* A loop cancelled by a stop, while its user's socket stays registered, has exited.
C8_Witness ==
    \E t \in 1..Len(tasks) :
        /\ tasks[t].cancel
        /\ ~Live(t)
        /\ tasks[t].user \in DOMAIN active_connections
        /\ tasks[t].user \notin DOMAIN detection_tasks

\* C9: a handle leaves detection_tasks only once its loop has exited, so every
\* live loop is still on record.
C9_ReleasedOnlyAfterExit ==
    \A t \in 1..Len(tasks) :
        Live(t) =>
            /\ tasks[t].user \in DOMAIN detection_tasks
            /\ detection_tasks[tasks[t].user] = t

\* C10: no loop has exited while detection_tasks still records it.
C10_NoDeadRegisteredLoop ==
    \A user_id \in DOMAIN detection_tasks : Live(detection_tasks[user_id])

\* C11: a control message that is not valid JSON, or is JSON of no known type,
\* leaves the connection registered, the sockets open and the loops as they were.
C11_MalformedIgnored ==
    [][slast'.op \in {"malformed", "other"} =>
        UNCHANGED <<active_connections, detection_tasks, sockets, tasks>>
      ]_vars

\* C12: a transport disconnect of a user's socket does what a stop does to the
\* user's loop, cancelling it and removing its handle, so that the user has no
\* registered loop afterwards, and it unregisters the connection.
C12_DisconnectStops ==
    [][slast'.op = "WebSocketDisconnect" =>
        LET user_id == slast'.user_id
        IN  /\ user_id \notin DOMAIN detection_tasks'
            /\ user_id \notin DOMAIN active_connections'
            /\ Len(tasks') = Len(tasks)
            /\ \A t \in 1..Len(tasks) :
                    IF user_id \in DOMAIN detection_tasks
                       /\ detection_tasks[user_id] = t /\ Live(t)
                    THEN tasks'[t] = [tasks[t] EXCEPT !.cancel = TRUE]
                    ELSE tasks'[t] = tasks[t]
      ]_vars

\* A socket just lost while its user's loop was running: the loop, not yet
\* cancelled by anything else, is now cancelled and off the record.
C12_Witness ==
    /\ slast.op = "WebSocketDisconnect"
    /\ Len(tasks) = 1
    /\ tasks[1].user = slast.user_id
    /\ tasks[1].pc = "sleep"
    /\ tasks[1].cancel
    /\ detection_tasks = <<>>
    /\ active_connections = <<>>

\* C13: after a status frame's write has failed, the loop that wrote it is
\* cancelled or has ended, and its user's connection is unregistered.
C13_WriteFailureStops ==
    \A t \in 1..MaxTasks :
        (slast.op = "send_failed" /\ slast.task = t)
            ~> ( /\ t <= Len(tasks)
                 /\ tasks[t].cancel \/ ~Live(t)
                 /\ tasks[t].user \notin DOMAIN active_connections )

\* C26: a live loop that is not cancelled and whose user's connection is
\* registered gets to its next push: a status frame is written, unless the write
\* fails, the loop is cancelled or ends, or the connection is unregistered first.
C26_LoopKeepsPushing ==
    \A t \in 1..MaxTasks :
        ( /\ t <= Len(tasks)
          /\ Live(t)
          /\ ~tasks[t].cancel
          /\ tasks[t].user \in DOMAIN active_connections )
        ~> ( /\ t <= Len(tasks)
             /\ \/ slast.op \in {"status_update", "send_failed"} /\ slast.task = t
                \/ ~Live(t)
                \/ tasks[t].cancel
                \/ tasks[t].user \notin DOMAIN active_connections )

\* A frame just written by a loop that is live, not cancelled and on record,
\* to its user's registered socket.
C26_Witness ==
    /\ slast.op = "status_update"
    /\ Live(slast.task)
    /\ ~tasks[slast.task].cancel
    /\ slast.user_id \in DOMAIN active_connections
    /\ sockets[active_connections[slast.user_id]].open
    /\ slast.user_id \in DOMAIN detection_tasks
    /\ detection_tasks[slast.user_id] = slast.task

\* C28: active_connections holds one socket per user, the one connected last,
\* and the end of any socket of a user, registered or replaced, leaves the user
\* with no registered connection and no registered loop, the loop that was
\* registered being cancelled, whatever other socket of the user is still open.
C28_DisconnectKeyedByUser ==
    [][/\ Len(sockets') > Len(sockets) =>
            active_connections'[sockets'[Len(sockets')].user] = Len(sockets')
       /\ \A s \in 1..Len(sockets) :
            (sockets[s].open /\ ~sockets'[s].open) =>
                LET user_id == sockets[s].user
                IN  /\ user_id \notin DOMAIN active_connections'
                    /\ user_id \notin DOMAIN detection_tasks'
                    /\ \A r \in 1..Len(sockets) : r # s => sockets'[r] = sockets[r]
                    /\ user_id \in DOMAIN detection_tasks =>
                        LET t == detection_tasks[user_id]
                        IN  tasks'[t].cancel \/ ~Live(t)
      ]_vars

\* The first socket of a user has ended after a second one replaced it: the
\* second is still open but no longer registered, and the loop started over it
\* is cancelled and off the record.
C28_Witness ==
    /\ Len(sockets) = 2
    /\ sockets[1] = Closed
    /\ sockets[2].open
    /\ slast.op = "WebSocketDisconnect"
    /\ slast.user_id = sockets[2].user
    /\ active_connections = <<>>
    /\ detection_tasks = <<>>
    /\ Len(tasks) = 1
    /\ tasks[1].cancel
    /\ Live(1)

----------------------------------------------------------------------------
(* The detector and the detection endpoint *)

\* The detector with a frame of faces at hand.
DetectorInit == Constructed /\ detected \in { Pending(faces) : faces \in Frames }

\* ScreenPeekDetector.process_frame on the frame at hand.
ProcessFrame ==
    /\ ~detected.done
    /\ detected' = Processed(detected.faces)
    /\ UNCHANGED <<engineVars, sessionVars, screen_region, reply>>

DetectorSpec == DetectorInit /\ [][ProcessFrame]_vars

\* process_detection.  The simulated DetectionResult has is_peeking False, so
\* no alert is dispatched; the frame goes to the user's socket if there is one.
\* HTTPException is an Exception: the 400 raised inside the try block reaches
\* the except clause of the handler and leaves as a 500.
process_detection(user_id, region, outcome) ==
    /\ IF user_id = ""
       THEN /\ reply' = Response(user_id, 500, "Internal server error")
            /\ UNCHANGED <<screen_region, slast>>
       ELSE /\ screen_region' =
                   IF DOMAIN region # {}
                   THEN << Get(region, "x", 0), Get(region, "y", 0),
                           Get(region, "width", 1920), Get(region, "height", 1080) >>
                   ELSE screen_region
            /\ slast' = IF user_id \in DOMAIN active_connections
                        THEN DetectionFrame(user_id, outcome = "written")
                        ELSE Silent
            /\ reply' = Response(user_id, 200, "")
    /\ UNCHANGED <<engineVars, active_connections, detection_tasks, sockets,
                   tasks, detected>>

ProcessDetection ==
    \E user_id \in RequestUsers, region \in RequestRegions,
       outcome \in {"written", "failed"} :
        process_detection(user_id, region, outcome)

ProcessNext ==
    \/ ProcessDetection
    \/ Connect
    \/ SocketClosed

ProcessSpec == Init /\ [][ProcessNext]_vars

----------------------------------------------------------------------------
(* Properties of the detector and the detection endpoint *)

\* C25: is_looking_at_screen answers true exactly when the pitch is strictly
\* within 15 degrees and the yaw strictly within 20 degrees of the screen, for
\* every face of every frame: (10, 5) is looking, (20, 5) is not.
C25_LookingIffWithinThresholds ==
    \A i \in 1..Len(detected.result.looking) :
        LET gaze == detected.result.gaze_angles[i]
        IN  detected.result.looking[i]
                <=> /\ -PitchThreshold < gaze[1] /\ gaze[1] < PitchThreshold
                    /\ -YawThreshold < gaze[2] /\ gaze[2] < YawThreshold

C25_Witness ==
    \E i, j \in 1..Len(detected.result.looking) :
        /\ detected.result.gaze_angles[i] = <<10, 5>>
        /\ detected.result.looking[i]
        /\ detected.result.gaze_angles[j] = <<20, 5>>
        /\ ~detected.result.looking[j]

\* C24: a frame is reported as peeking only on account of a face whose gaze
\* was actually estimated; a face whose estimation failed never sets is_peeking.
C24_FailedGazeNotPeeking ==
    detected.result.is_peeking
        => \E i \in 1..Len(detected.faces) :
               /\ detected.faces[i].estimate = "ok"
               /\ detected.result.looking[i]

\* C21: a detection request with an empty user_id is answered with HTTP 400
\* 'User ID is required'.
C21_EmptyUserRejected ==
    (reply # NoReply /\ reply.user_id = "")
        => reply.status_code = 400 /\ reply.detail = "User ID is required"

====
